---- MODULE Spec2Model ----
(***************************************************************************)
(* Model of the JSON-to-MDX converter (class JsonToMdxConverter): the      *)
(* taxonomy resolver, the identifier generator, the field normalizers, the *)
(* record validator, the document composer and the catalog merge, together *)
(* with the batch loop of processJsonFiles that drives them.               *)
(*                                                                         *)
(* Text whose characters matter (slug, title, description, uniqueId) is a  *)
(* sequence of one-character strings; enumerated text (category ids, tags, *)
(* difficulty, technology labels) is a TLA+ string.                        *)
(***************************************************************************)
EXTENDS Integers, Sequences, FiniteSets, TLC

VARIABLES
    categories,             \* this.categories, the taxonomy loaded by loadCategories
    indexFile,              \* config/article-index.json (production index file)
    articleIndex,           \* this.articleIndex, loaded by the constructor
    stagingIndex,           \* staging/config/article-index-update.json
    jsonFiles,              \* the *.json files of staging/json, in readdir order
    next,                   \* position of the forEach loop in jsonFiles
    successfulConversions,  \* results of convertJsonToMdx of this run
    processedFiles,         \* this.processedFiles
    errorFiles,             \* this.errorFiles
    errorLogs,              \* staging/json/errors: filename -> error log
    mdxFiles,               \* staging/guides: the MDX documents written
    pc,                     \* position of the run
    slugIn, slugOut, slugAgain, slugPhase,   \* slug normalization on its own
    vIn, vOut, vPhase,                       \* validation on its own
    callIn, callOut, callAgain, callPhase    \* one operation called on its own, twice

pipelineVars == <<indexFile, articleIndex, stagingIndex, jsonFiles, next,
                  successfulConversions, processedFiles, errorFiles,
                  errorLogs, mdxFiles, pc>>
slugVars == <<slugIn, slugOut, slugAgain, slugPhase>>
validateVars == <<vIn, vOut, vPhase>>
callVars == <<callIn, callOut, callAgain, callPhase>>
vars == <<categories, pipelineVars, slugVars, validateVars, callVars>>

(***************************************************************************)
(* Bounds of the model.                                                    *)
(***************************************************************************)
MaxBatch == 2       \* files in staging/json in one run
MaxSlugLen == 4     \* length of the slugs enumerated for normalizeSlug
MaxPieces == 3      \* pieces of text put together into one body
MaxTags == 3        \* tags of a record enumerated for the taxonomy resolver
MaxTitleLen == 11   \* length of the titles enumerated for truncateTitle

(***************************************************************************)
(* Characters.                                                             *)
(***************************************************************************)
LowerLetters ==
    {"a","b","c","d","e","f","g","h","i","j","k","l","m",
     "n","o","p","q","r","s","t","u","v","w","x","y","z"}
Digits == {"0","1","2","3","4","5","6","7","8","9"}
UpperSeq ==
    <<"A","B","C","D","E","F","G","H","I","J","K","L","M",
      "N","O","P","Q","R","S","T","U","V","W","X","Y","Z">>
LowerSeq ==
    <<"a","b","c","d","e","f","g","h","i","j","k","l","m",
      "n","o","p","q","r","s","t","u","v","w","x","y","z">>

\* String.prototype.toLowerCase on one character
toLowerCaseChar(c) ==
    IF \E i \in 1..Len(UpperSeq) : UpperSeq[i] = c
    THEN LowerSeq[CHOOSE i \in 1..Len(UpperSeq) : UpperSeq[i] = c]
    ELSE c

toLowerCase(s) == [i \in 1..Len(s) |-> toLowerCaseChar(s[i])]

\* all sequences over S of length at most n
RECURSIVE SeqsUpTo(_, _)
SeqsUpTo(S, n) ==
    IF n = 0 THEN {<<>>}
    ELSE LET shorter == SeqsUpTo(S, n - 1)
         IN  shorter \cup {Append(s, c) : s \in shorter, c \in S}

(***************************************************************************)
(* normalizeSlug: four replace() calls, in the order of the source.        *)
(***************************************************************************)
\* .replace(/_/g, '-')
ReplaceUnderscores(s) ==
    [i \in 1..Len(s) |-> IF s[i] = "_" THEN "-" ELSE s[i]]

\* .replace(/[^a-z0-9-]/g, '-')
ReplaceNonKebab(s) ==
    [i \in 1..Len(s) |->
        IF s[i] \in LowerLetters \cup Digits \cup {"-"} THEN s[i] ELSE "-"]

\* .replace(/-+/g, '-')
RECURSIVE CollapseHyphens(_)
CollapseHyphens(s) ==
    IF Len(s) <= 1 THEN s
    ELSE IF s[1] = "-" /\ s[2] = "-" THEN CollapseHyphens(Tail(s))
    ELSE <<s[1]>> \o CollapseHyphens(Tail(s))

\* .replace(/^-|-$/g, ''): one hyphen at the start, one at the end
StripEdgeHyphens(s) ==
    LET noLead == IF Len(s) > 0 /\ s[1] = "-" THEN Tail(s) ELSE s
    IN  IF Len(noLead) > 0 /\ noLead[Len(noLead)] = "-"
        THEN SubSeq(noLead, 1, Len(noLead) - 1)
        ELSE noLead

\* a slip: the edges are stripped before the runs are collapsed
normalizeSlug_stripFirst(slug) ==
    CollapseHyphens(StripEdgeHyphens(ReplaceNonKebab(ReplaceUnderscores(slug))))

normalizeSlug(slug) ==
    StripEdgeHyphens(CollapseHyphens(ReplaceNonKebab(ReplaceUnderscores(slug))))

\* kebab-case: lowercase letters, digits, hyphens; no hyphen at an edge, none doubled
IsKebab(s) ==
    /\ \A i \in 1..Len(s) : s[i] \in LowerLetters \cup Digits \cup {"-"}
    /\ Len(s) > 0 => (s[1] # "-" /\ s[Len(s)] # "-")
    /\ \A i \in 1..(Len(s) - 1) : ~(s[i] = "-" /\ s[i + 1] = "-")

(***************************************************************************)
(* JavaScript values.  An object is a function from its own property names *)
(* to their values, so that a missing property is a name outside DOMAIN.   *)
(***************************************************************************)
StringFields == {"title", "slug", "uniqueId", "description", "id"}
TokenFields == {"category", "subcategory", "difficulty", "technology",
                "sourceStackOverflowId"}

\* !!obj[field]: an own property whose value is not '', 0, undefined
Truthy(obj, field) ==
    /\ field \in DOMAIN obj
    /\ field \in StringFields => obj[field] # <<>>
    /\ field \in TokenFields => obj[field] # ""
    /\ field = "readTime" => obj[field] # 0
    /\ field = "featured" => obj[field] = TRUE

\* obj[field] = value
SetField(obj, field, value) ==
    [g \in DOMAIN obj \cup {field} |-> IF g = field THEN value ELSE obj[g]]

\* the object without the property
DropField(obj, field) == [g \in DOMAIN obj \ {field} |-> obj[g]]

\* JSON null
JsNull == [null |-> TRUE]
IsNull(v) == DOMAIN v = {"null"}

\* the body of a record: a string, or a value that is not a string
IsString(v) == DOMAIN v = {"string"}

\* Array.prototype.includes
Includes(seq, x) == \E i \in 1..Len(seq) : seq[i] = x

\* tags.some(tag => list.includes(tag))
SomeIn(seq, list) == \E i \in 1..Len(seq) : seq[i] \in list

(***************************************************************************)
(* The taxonomy: this.categories, loaded once per run and only read.       *)
(***************************************************************************)
CategoriesFile ==
    [categories |-> <<
        [id |-> "programming-languages",
         subcategories |-> <<"java", "python", "javascript">>],
        [id |-> "databases",
         subcategories |-> <<"sql", "mysql", "postgresql">>],
        [id |-> "web-frontend",
         subcategories |-> <<"javascript", "css", "html">>],
        [id |-> "system-devops",
         subcategories |-> <<"linux", "containerization", "cloud">>],
        [id |-> "mobile",
         subcategories |-> <<"android", "ios">>] >>]

\* a categories file that also lists the short names as categories of their own
SynonymCategoriesFile ==
    [categories |-> CategoriesFile.categories \o <<
        [id |-> "programming", subcategories |-> <<"general", "python">>],
        [id |-> "frontend", subcategories |-> <<"general", "css">>] >>]

Taxonomies == {CategoriesFile, SynonymCategoriesFile}

\* this.categories.categories.some(cat => cat.id === category)
CategoryExists(category) ==
    \E i \in 1..Len(categories.categories) : categories.categories[i].id = category

\* category.subcategories.some(sub => sub.id === subcategory)
SubcategoryExists(category, subcategory) ==
    \E i \in 1..Len(categories.categories) :
        /\ categories.categories[i].id = category
        /\ Includes(categories.categories[i].subcategories, subcategory)

(***************************************************************************)
(* Taxonomy resolver: mapCategory and mapSubcategory.                      *)
(***************************************************************************)
\* a tag of the JSON text that is a number, not a string
NumberTag == "<number 5>"

\* tags.map(tag => tag.toLowerCase()) raises TypeError
TagsThrow(tags) == \E i \in 1..Len(tags) : tags[i] = NumberTag

\* tag.toLowerCase() on the tags of the model
TagToLowerCase(tag) ==
    CASE tag = "Python" -> "python"
      [] tag = "MySQL" -> "mysql"
      [] tag = "CSS" -> "css"
      [] OTHER -> tag

tagLowerOf(tags) == [i \in 1..Len(tags) |-> TagToLowerCase(tags[i])]

categoryMappings ==
    [programming |-> "programming-languages",
     devops |-> "system-devops",
     backend |-> "web-backend",
     frontend |-> "web-frontend",
     database |-> "databases",
     db |-> "databases"]

DatabaseTags == {"sql", "mysql", "postgresql", "mongodb", "database",
                 "sql-server", "oracle", "sqlite"}
DevopsTags == {"docker", "kubernetes", "aws", "azure", "gcp", "linux",
               "bash", "shell", "devops", "cloud"}
FrontendTags == {"javascript", "react", "vue", "angular", "css", "html",
                 "frontend", "ui", "web"}
MobileTags == {"android", "ios", "mobile", "swift", "kotlin"}

\* categoryMappings[category] || category
RenameCategory(category) ==
    IF category \in DOMAIN categoryMappings
    THEN categoryMappings[category] ELSE category

\* a slip: the first tag of the list that is in one of the groups decides
mapCategory_firstTag(category, subcategory, tags) ==
    LET tagLower == tagLowerOf(tags)
        signals == DatabaseTags \cup DevopsTags \cup FrontendTags \cup MobileTags
        hits == {i \in 1..Len(tagLower) : tagLower[i] \in signals}
        first == tagLower[CHOOSE i \in hits : \A j \in hits : i <= j]
    IN  IF (category = "programming" \/ ~CategoryExists(category)) /\ hits # {}
        THEN IF first \in DatabaseTags THEN "databases"
             ELSE IF first \in DevopsTags THEN "system-devops"
             ELSE IF first \in FrontendTags THEN "web-frontend"
             ELSE "mobile"
        ELSE RenameCategory(category)

mapCategory(category, subcategory, tags) ==
    LET tagLower == tagLowerOf(tags)
    IN  IF category = "programming" \/ ~CategoryExists(category)
        THEN CASE SomeIn(tagLower, DatabaseTags) -> "databases"
               [] ~SomeIn(tagLower, DatabaseTags)
                  /\ SomeIn(tagLower, DevopsTags) -> "system-devops"
               [] ~SomeIn(tagLower, DatabaseTags \cup DevopsTags)
                  /\ SomeIn(tagLower, FrontendTags) -> "web-frontend"
               [] ~SomeIn(tagLower, DatabaseTags \cup DevopsTags \cup FrontendTags)
                  /\ SomeIn(tagLower, MobileTags) -> "mobile"
               [] OTHER -> RenameCategory(category)
        ELSE RenameCategory(category)

\* a slip: a subcategory is only replaced when the category was not renamed
mapSubcategory_keepsGeneral(category, subcategory, tags) ==
    IF category = "programming-languages" THEN subcategory
    ELSE IF subcategory = "general" /\ category = "databases" THEN "sql"
    ELSE subcategory

mapSubcategory(category, subcategory, tags) ==
    LET tagLower == tagLowerOf(tags)
    IN  IF subcategory # "general" THEN subcategory
        ELSE CASE category = "databases" ->
                    IF Includes(tagLower, "sql-server") THEN "sql"
                    ELSE IF Includes(tagLower, "mysql") THEN "mysql"
                    ELSE IF Includes(tagLower, "postgresql") THEN "postgresql"
                    ELSE IF Includes(tagLower, "mongodb") THEN "mongodb"
                    ELSE "sql"
               [] category = "programming-languages" ->
                    IF SomeIn(tagLower, {"java"}) THEN "java"
                    ELSE IF SomeIn(tagLower, {"python"}) THEN "python"
                    ELSE IF SomeIn(tagLower, {"javascript", "js", "npm", "node"})
                         THEN "javascript"
                    ELSE IF SomeIn(tagLower, {"c#", "csharp"}) THEN "csharp"
                    ELSE IF SomeIn(tagLower, {"cpp", "c++"}) THEN "cpp"
                    ELSE IF SomeIn(tagLower, {"c"}) THEN "c"
                    ELSE IF SomeIn(tagLower, {"go", "golang"}) THEN "go"
                    ELSE IF SomeIn(tagLower, {"php"}) THEN "php"
                    ELSE IF SomeIn(tagLower, {"ruby"}) THEN "ruby"
                    ELSE IF SomeIn(tagLower, {"rust"}) THEN "rust"
                    ELSE "python"
               [] category = "system-devops" ->
                    IF SomeIn(tagLower, {"linux", "bash", "shell"}) THEN "linux"
                    ELSE IF SomeIn(tagLower, {"docker", "container"})
                         THEN "containerization"
                    ELSE IF SomeIn(tagLower, {"aws", "azure", "gcp", "cloud"})
                         THEN "cloud"
                    ELSE IF SomeIn(tagLower, {"git", "github", "gitlab"})
                         THEN "version-control"
                    ELSE "shell"
               [] category = "web-frontend" ->
                    IF SomeIn(tagLower, {"css"}) THEN "css"
                    ELSE IF SomeIn(tagLower, {"html"}) THEN "html"
                    ELSE "javascript"
               [] OTHER -> subcategory

(***************************************************************************)
(* Identifier generator: the first 8 hex digits of                         *)
(* sha256("deepv-content-2025-" + key), tabulated for the keys of the      *)
(* model.                                                                  *)
(***************************************************************************)
generateUniqueId(stackoverflowId) ==
    CASE stackoverflowId = "42" -> <<"2","0","c","3","1","c","3","5">>
      [] stackoverflowId = "7" -> <<"4","5","d","8","f","c","e","4">>

\* /^[a-f0-9]{8}$/.test(uniqueId)
HexChars == {"a","b","c","d","e","f"} \cup Digits
IsHexId(uniqueId) ==
    Len(uniqueId) = 8 /\ \A i \in 1..8 : uniqueId[i] \in HexChars

(***************************************************************************)
(* Record validator: validateJsonStructure.  The result carries the error  *)
(* list and the record as the validator left it (category, subcategory and *)
(* uniqueId are rewritten in place); threw is TRUE when the call raised    *)
(* instead of returning.                                                   *)
(***************************************************************************)
requiredFields ==
    <<"title", "slug", "uniqueId", "category", "subcategory",
      "description", "tags", "difficulty", "readTime">>

Difficulties == {"beginner", "intermediate", "advanced"}

\* !!jsonData.content
ContentTruthy(jsonData) ==
    /\ "content" \in DOMAIN jsonData
    /\ IsString(jsonData.content) => jsonData.content.string # <<>>

\* lines 298-315: auto-fix of category and subcategory
AutoFixCategories(meta) ==
    IF Truthy(meta, "category") /\ Truthy(meta, "tags")
    THEN LET sub == IF "subcategory" \in DOMAIN meta
                    THEN meta.subcategory ELSE "undefined"
             mappedCategory == mapCategory(meta.category, sub, meta.tags)
             mappedSubcategory == mapSubcategory(mappedCategory, sub, meta.tags)
             meta1 == IF mappedCategory # meta.category
                      THEN SetField(meta, "category", mappedCategory) ELSE meta
         IN  IF "subcategory" \in DOMAIN meta /\ mappedSubcategory # meta.subcategory
             THEN SetField(meta1, "subcategory", mappedSubcategory) ELSE meta1
    ELSE meta

\* a slip: the id is generated only when the record has none
FixUniqueId_onlyMissing(meta) ==
    IF Truthy(meta, "sourceStackOverflowId") /\ ~Truthy(meta, "uniqueId")
    THEN SetField(meta, "uniqueId", generateUniqueId(meta.sourceStackOverflowId))
    ELSE meta

\* lines 298-301: mapCategory (line 183) or mapSubcategory (line 212) calls
\* toLowerCase on a tag that is not a string
AutoFixThrows(meta) ==
    /\ Truthy(meta, "category") /\ Truthy(meta, "tags")
    /\ TagsThrow(meta.tags)
    /\ \/ meta.category = "programming"
       \/ ~CategoryExists(meta.category)
       \/ "subcategory" \in DOMAIN meta /\ meta.subcategory = "general"

\* lines 317-330: the id is generated from the source key when there is one
FixUniqueId(meta) ==
    IF Truthy(meta, "sourceStackOverflowId")
    THEN LET expectedUniqueId == generateUniqueId(meta.sourceStackOverflowId)
         IN  IF ~Truthy(meta, "uniqueId") THEN SetField(meta, "uniqueId", expectedUniqueId)
             ELSE IF meta.uniqueId # expectedUniqueId
                  THEN SetField(meta, "uniqueId", expectedUniqueId)
             ELSE meta
    ELSE meta

\* a slip: a falsy readTime is let through
MissingFieldErrors_noReadTime(meta) ==
    LET missing == SelectSeq(requiredFields,
                             LAMBDA field : field # "readTime" /\ ~Truthy(meta, field))
    IN  [i \in 1..Len(missing) |-> <<"Missing required metadata field: ", missing[i]>>]

\* lines 332-342
MissingFieldErrors(meta) ==
    LET missing == SelectSeq(requiredFields, LAMBDA field : ~Truthy(meta, field))
    IN  [i \in 1..Len(missing) |-> <<"Missing required metadata field: ", missing[i]>>]

\* a slip: the lower bound of the description length is exclusive
FormatErrors_exclusiveBound(meta) ==
       (IF Truthy(meta, "uniqueId") /\ ~IsHexId(meta.uniqueId)
        THEN << <<"uniqueId must be 8-character hex string">> >> ELSE <<>>)
    \o (IF Truthy(meta, "difficulty") /\ meta.difficulty \notin Difficulties
        THEN << <<"difficulty must be: beginner, intermediate, or advanced">> >>
        ELSE <<>>)
    \o (IF Truthy(meta, "description")
           /\ (Len(meta.description) <= 20 \/ Len(meta.description) > 200)
        THEN << <<"description must be 20-200 characters">> >> ELSE <<>>)

\* lines 344-355
FormatErrors(meta) ==
       (IF Truthy(meta, "uniqueId") /\ ~IsHexId(meta.uniqueId)
        THEN << <<"uniqueId must be 8-character hex string">> >> ELSE <<>>)
    \o (IF Truthy(meta, "difficulty") /\ meta.difficulty \notin Difficulties
        THEN << <<"difficulty must be: beginner, intermediate, or advanced">> >>
        ELSE <<>>)
    \o (IF Truthy(meta, "description")
           /\ (Len(meta.description) < 20 \/ Len(meta.description) > 200)
        THEN << <<"description must be 20-200 characters">> >> ELSE <<>>)

\* a slip: the subcategory is not looked up
CategoryErrors_noSubcategoryCheck(meta) ==
    IF Truthy(meta, "category") /\ ~CategoryExists(meta.category)
    THEN << <<"Invalid category: ", meta.category>> >> ELSE <<>>

\* lines 357-372
CategoryErrors(meta) ==
    IF Truthy(meta, "category")
    THEN LET categoryExists == CategoryExists(meta.category)
         IN     (IF ~categoryExists
                 THEN << <<"Invalid category: ", meta.category>> >> ELSE <<>>)
             \o (IF categoryExists /\ Truthy(meta, "subcategory")
                    /\ ~SubcategoryExists(meta.category, meta.subcategory)
                 THEN << <<"Invalid subcategory: ", meta.subcategory,
                           " for category: ", meta.category>> >>
                 ELSE <<>>)
    ELSE <<>>

\* lines 374-394: only the word count adds an error; the rest is console output
QualityErrors(meta) ==
    IF Truthy(meta, "qualityMetrics")
    THEN LET metrics == meta.qualityMetrics
         IN  IF metrics.wordCount # 0 /\ metrics.wordCount < 100
             THEN << <<"Content appears too short (< 100 words)">> >> ELSE <<>>
    ELSE <<>>

validateJsonStructure(jsonData) ==
    IF IsNull(jsonData)
    THEN [threw |-> TRUE,
          message |-> <<"Cannot read properties of null (reading 'metadata')">>,
          errors |-> <<>>, jsonData |-> jsonData]
    ELSE LET structure ==
                    (IF ~Truthy(jsonData, "metadata")
                     THEN << <<"Missing metadata object">> >> ELSE <<>>)
                 \o (IF ~ContentTruthy(jsonData)
                     THEN << <<"Missing content field">> >> ELSE <<>>)
         IN  IF Truthy(jsonData, "metadata") /\ AutoFixThrows(jsonData.metadata)
             THEN [threw |-> TRUE,
                   message |-> <<"tag.toLowerCase is not a function">>,
                   errors |-> <<>>, jsonData |-> jsonData]
             ELSE IF Truthy(jsonData, "metadata")
             THEN LET meta == FixUniqueId(AutoFixCategories(jsonData.metadata))
                  IN  [threw |-> FALSE, message |-> <<>>,
                       errors |-> structure \o MissingFieldErrors(meta)
                                     \o FormatErrors(meta) \o CategoryErrors(meta)
                                     \o QualityErrors(meta),
                       jsonData |-> SetField(jsonData, "metadata", meta)]
             ELSE [threw |-> FALSE, message |-> <<>>,
                   errors |-> structure, jsonData |-> jsonData]

(***************************************************************************)
(* Text helpers.                                                           *)
(***************************************************************************)
StartsWith(s, prefix) ==
    Len(s) >= Len(prefix) /\ SubSeq(s, 1, Len(prefix)) = prefix

DropChars(s, n) == SubSeq(s, n + 1, Len(s))

\* .replace(/"/g, '\\"')
RECURSIVE EscapeQuotes(_)
EscapeQuotes(s) ==
    LET quotes == {i \in 1..Len(s) : s[i] = "\""}
    IN  IF quotes = {} THEN s
        ELSE LET k == CHOOSE i \in quotes : \A j \in quotes : i <= j
             IN  SubSeq(s, 1, k - 1) \o <<"\\", "\"">>
                   \o EscapeQuotes(SubSeq(s, k + 1, Len(s)))

(***************************************************************************)
(* Body rewriting: processCodeBlocks and processImagePlaceholders.         *)
(***************************************************************************)
\* the backtick character (a string of its own name: the character itself
\* cannot be written in a TLA+ string)
Backtick == "BACKTICK"
Fence == <<Backtick, Backtick, Backtick>>
Newline == "\n"

\* \w
IsWordChar(c) ==
    \/ c \in LowerLetters \cup Digits \cup {"_"}
    \/ \E i \in 1..Len(UpperSeq) : UpperSeq[i] = c

\* length of the longest prefix of s made of word characters
RECURSIVE WordRun(_)
WordRun(s) ==
    IF s # <<>> /\ IsWordChar(s[1]) THEN 1 + WordRun(Tail(s)) ELSE 0

languageMappings ==
    << << <<"j","s">>, <<"j","a","v","a","s","c","r","i","p","t">> >>,
      << <<"j","s","x">>, <<"j","s","x">> >>,
      << <<"t","s">>, <<"t","y","p","e","s","c","r","i","p","t">> >>,
      << <<"t","s","x">>, <<"t","s","x">> >>,
      << <<"p","y">>, <<"p","y","t","h","o","n">> >>,
      << <<"p","y","t","h","o","n","3">>, <<"p","y","t","h","o","n">> >>,
      << <<"s","h">>, <<"b","a","s","h">> >>,
      << <<"s","h","e","l","l">>, <<"b","a","s","h">> >>,
      << <<"z","s","h">>, <<"b","a","s","h">> >>,
      << <<"c","m","d">>, <<"p","o","w","e","r","s","h","e","l","l">> >>,
      << <<"y","m","l">>, <<"y","a","m","l">> >>,
      << <<"y","a","m","l">>, <<"y","a","m","l">> >>,
      << <<"d","o","c","k","e","r","f","i","l","e">>, <<"d","o","c","k","e","r">> >>,
      << <<"h","t","m","l">>, <<"h","t","m","l">> >>,
      << <<"c","s","s">>, <<"c","s","s">> >>,
      << <<"s","c","s","s">>, <<"s","c","s","s">> >>,
      << <<"s","q","l">>, <<"s","q","l">> >>,
      << <<"j","s","o","n">>, <<"j","s","o","n">> >>,
      << <<"x","m","l">>, <<"x","m","l">> >>,
      << <<"m","d">>, <<"m","a","r","k","d","o","w","n">> >>,
      << <<"m","a","r","k","d","o","w","n">>, <<"m","a","r","k","d","o","w","n">> >>,
      << <<"m","e","r","m","a","i","d">>, <<"m","e","r","m","a","i","d">> >>,
      << <<"t","e","x","t">>, <<"t","e","x","t">> >>,
      << <<"p","l","a","i","n">>, <<"t","e","x","t">> >>,
      << <<"t","x","t">>, <<"t","e","x","t">> >>,
      << <<"o","u","t","p","u","t">>, <<"o","u","t","p","u","t">> >>,
      << <<"c","o","n","s","o","l","e">>, <<"o","u","t","p","u","t">> >>,
      << <<"c","o","n","f","i","g">>, <<"c","o","n","f","i","g">> >>,
      << <<"c","o","n","f">>, <<"c","o","n","f","i","g">> >> >>

\* the properties with a lowercase name that an object literal inherits from
\* Object.prototype, each with the text it becomes when added to a string
ObjectPrototype ==
    << << <<"c","o","n","s","t","r","u","c","t","o","r">>,
         <<"f","u","n","c","t","i","o","n"," ","O","b","j","e","c","t","(",
         ")"," ","{"," ","[","n","a","t","i","v","e"," ","c","o","d","e",
         "]"," ","}">> >>,
       << <<"_","_","p","r","o","t","o","_","_">>,
         <<"[","o","b","j","e","c","t"," ","O","b","j","e","c","t","]">> >> >>

\* this.languageMappings[language.toLowerCase()] || language.toLowerCase()
MapLanguage(language) ==
    LET lower == toLowerCase(language)
        own == languageMappings \o ObjectPrototype
    IN  IF \E i \in 1..Len(own) : own[i][1] = lower
        THEN own[CHOOSE i \in 1..Len(own) : own[i][1] = lower][2]
        ELSE lower

\* content.replace(/FENCE(\w+)/g, ...), FENCE being three backticks
RECURSIVE ReplaceLanguages(_)
ReplaceLanguages(s) ==
    IF s = <<>> THEN <<>>
    ELSE IF StartsWith(s, Fence) /\ WordRun(DropChars(s, 3)) > 0
    THEN LET n == WordRun(DropChars(s, 3))
         IN  Fence \o MapLanguage(SubSeq(s, 4, 3 + n))
                   \o ReplaceLanguages(DropChars(s, 3 + n))
    ELSE <<s[1]>> \o ReplaceLanguages(Tail(s))

DiagramKeywords ==
    << <<"g","r","a","p","h">>,
       <<"f","l","o","w","c","h","a","r","t">>,
       <<"s","e","q","u","e","n","c","e","D","i","a","g","r","a","m">>,
       <<"c","l","a","s","s","D","i","a","g","r","a","m">>,
       <<"g","i","t","g","r","a","p","h">> >>

Mermaid == <<"m","e","r","m","a","i","d">>

\* .replace(/FENCE\n(graph|flowchart|sequenceDiagram|classDiagram|gitgraph)/g, 'FENCEmermaid\n$1')
RECURSIVE ReplaceDiagrams(_)
ReplaceDiagrams(s) ==
    IF s = <<>> THEN <<>>
    ELSE LET opener == Fence \o <<Newline>>
             hits == {k \in 1..Len(DiagramKeywords) :
                        StartsWith(s, opener \o DiagramKeywords[k])}
         IN  IF hits # {}
             THEN LET k == CHOOSE j \in hits : \A h \in hits : j <= h
                      keyword == DiagramKeywords[k]
                  IN  Fence \o Mermaid \o <<Newline>> \o keyword
                        \o ReplaceDiagrams(DropChars(s, 4 + Len(keyword)))
             ELSE <<s[1]>> \o ReplaceDiagrams(Tail(s))

processCodeBlocks(content) == ReplaceDiagrams(ReplaceLanguages(content))

\* length of the longest prefix of s that does not contain stop
RECURSIVE RunUntil(_, _)
RunUntil(s, stop) ==
    IF s # <<>> /\ s[1] # stop THEN 1 + RunUntil(Tail(s), stop) ELSE 0

PlaceholderPrefix == <<"P","L","A","C","E","H","O","L","D","E","R",":">>

\* content.replace(/!\[([^\]]+)\]\((?!PLACEHOLDER:)([^)]+)\)/g, '![$1](PLACEHOLDER: $1 - $2)')
RECURSIVE processImagePlaceholders(_)
processImagePlaceholders(content) ==
    IF content = <<>> THEN <<>>
    ELSE LET afterOpen == DropChars(content, 2)
             altLen == RunUntil(afterOpen, "]")
             afterAlt == DropChars(afterOpen, altLen)
             afterParen == DropChars(afterAlt, 2)
             targetLen == RunUntil(afterParen, ")")
             matches ==
                /\ StartsWith(content, <<"!", "[">>)
                /\ altLen > 0
                /\ StartsWith(afterAlt, <<"]", "(">>)
                /\ ~StartsWith(afterParen, PlaceholderPrefix)
                /\ targetLen > 0
                /\ Len(afterParen) > targetLen
             alt == SubSeq(afterOpen, 1, altLen)
             target == SubSeq(afterParen, 1, targetLen)
         IN  IF matches
             THEN <<"!", "[">> \o alt \o <<"]", "(">> \o PlaceholderPrefix
                    \o <<" ">> \o alt \o <<" ", "-", " ">> \o target \o <<")">>
                    \o processImagePlaceholders(DropChars(afterParen, targetLen + 1))
             ELSE <<content[1]>> \o processImagePlaceholders(Tail(content))

(***************************************************************************)
(* Dates.  An instant is a number; a date text is <<"iso", t>> (the        *)
(* canonical text of Date.prototype.toISOString), <<"loose", t>> (another  *)
(* text that Date parses to the instant t) or <<"garbage">> (a text Date   *)
(* cannot parse).                                                          *)
(***************************************************************************)
Instants == {1, 2}
Undefined == <<"undefined">>

toISOString(t) == <<"iso", t>>

\* !isNaN(new Date(dateString).getTime())
Parseable(dateString) == dateString[1] \in {"iso", "loose"}

formatISODate(dateString, now) ==
    IF Parseable(dateString) THEN toISOString(dateString[2]) ELSE toISOString(now)

(***************************************************************************)
(* Title policy: truncateTitle.  maxLength is {} for null, {n} for n.      *)
(***************************************************************************)
\* a slip: indexOf in the place of lastIndexOf
LastSpaceIndex_first(truncated) ==
    LET spaces == {i \in 1..Len(truncated) : truncated[i] = " "}
    IN  IF spaces = {} THEN -1
        ELSE (CHOOSE i \in spaces : \A j \in spaces : i <= j) - 1

\* title.substring(0, maxLength).lastIndexOf(' '), 0-based, -1 when absent
LastSpaceIndex(truncated) ==
    LET spaces == {i \in 1..Len(truncated) : truncated[i] = " "}
    IN  IF spaces = {} THEN -1
        ELSE (CHOOSE i \in spaces : \A j \in spaces : j <= i) - 1

\* a slip: without a limit the title is cut at 70 characters
truncateTitle_limit70(title, maxLength) ==
    LET limit == IF maxLength = {} THEN 70 ELSE CHOOSE n \in maxLength : TRUE
        truncated == SubSeq(title, 1, limit)
        lastSpaceIndex == LastSpaceIndex(truncated)
    IN  IF Len(title) <= limit THEN title
        ELSE IF 10 * lastSpaceIndex > 7 * limit
             THEN SubSeq(truncated, 1, lastSpaceIndex)
        ELSE truncated

truncateTitle(title, maxLength) ==
    IF maxLength = {} THEN title
    ELSE LET limit == CHOOSE n \in maxLength : TRUE
             truncated == SubSeq(title, 1, limit)
             lastSpaceIndex == LastSpaceIndex(truncated)
         IN  IF Len(title) <= limit THEN title
             ELSE IF 10 * lastSpaceIndex > 7 * limit
                  THEN SubSeq(truncated, 1, lastSpaceIndex)
             ELSE truncated

(***************************************************************************)
(* Document composer: generateMdxFrontmatter and convertJsonToMdx.         *)
(***************************************************************************)
MdxSuffix == <<".", "m", "d", "x">>

\* metadata.generatedAt || metadata.publishedAt
DateOf(metadata) ==
    IF Truthy(metadata, "generatedAt") THEN metadata.generatedAt
    ELSE IF Truthy(metadata, "publishedAt") THEN metadata.publishedAt
    ELSE Undefined

generateMdxFrontmatter(metadata, now) ==
    [title |-> EscapeQuotes(truncateTitle(metadata.title, {})),
     slug |-> normalizeSlug(metadata.slug),
     category |-> metadata.category,
     subcategory |-> metadata.subcategory,
     description |-> EscapeQuotes(metadata.description),
     tags |-> metadata.tags,
     difficulty |-> metadata.difficulty,
     readTime |-> metadata.readTime,
     lastUpdated |-> formatISODate(DateOf(metadata), now),
     featured |-> Truthy(metadata, "featured")]

\* the properties the result copies as they are, undefined when missing
CopiedFields == {"sourceStackOverflowId", "qualityMetrics", "technology",
                 "publishedAt", "generatedAt"}

UndefinedText == <<"u","n","d","e","f","i","n","e","d">>

\* the metadata with every property the composer reads without a check
Readable(metadata) ==
    [g \in DOMAIN metadata \cup {"uniqueId", "category", "subcategory", "tags",
                                 "difficulty", "readTime"} |->
        IF g \in DOMAIN metadata THEN metadata[g]
        ELSE IF g = "uniqueId" THEN UndefinedText
        ELSE IF g = "tags" THEN <<"undefined">>
        ELSE IF g = "readTime" THEN -1
        ELSE "undefined"]

convertJsonToMdx(jsonData, now) ==
    IF "content" \notin DOMAIN jsonData \/ ~IsString(jsonData.content)
    THEN [threw |-> TRUE, message |-> <<"content.replace is not a function">>]
    ELSE IF \/ "metadata" \notin DOMAIN jsonData
            \/ {"title", "slug", "description"} \ DOMAIN jsonData.metadata # {}
    THEN [threw |-> TRUE, message |-> <<"Cannot read properties of undefined">>]
    ELSE LET content == processImagePlaceholders(
                            processCodeBlocks(jsonData.content.string))
             metadata == SetField(
                 SetField(Readable(jsonData.metadata), "title",
                          truncateTitle(jsonData.metadata.title, {})),
                 "slug", normalizeSlug(jsonData.metadata.slug))
             mdxFilename == metadata.slug \o <<"-">> \o metadata.uniqueId \o MdxSuffix
         IN  [threw |-> FALSE, message |-> <<>>,
              mdxFilename |-> mdxFilename,
              mdxContent |-> [frontmatter |-> generateMdxFrontmatter(metadata, now),
                              content |-> content],
              metadata |->
                  [title |-> metadata.title,
                   slug |-> metadata.slug,
                   uniqueId |-> metadata.uniqueId,
                   category |-> metadata.category,
                   subcategory |-> metadata.subcategory,
                   description |-> metadata.description,
                   tags |-> metadata.tags,
                   difficulty |-> metadata.difficulty,
                   readTime |-> metadata.readTime,
                   lastUpdated |-> formatISODate(DateOf(metadata), now),
                   featured |-> Truthy(metadata, "featured"),
                   filename |-> mdxFilename]
                  @@ [g \in DOMAIN metadata \cap CopiedFields |-> metadata[g]]]

(***************************************************************************)
(* Catalog merge: loadArticleIndex, getTechnologyFromTags and              *)
(* updateArticleIndex.                                                     *)
(***************************************************************************)
technologyMappings ==
    <<<< "javascript", "JavaScript" >>,
     << "js", "JavaScript" >>,
     << "python", "Python" >>,
     << "py", "Python" >>,
     << "java", "Java" >>,
     << "sql", "SQL" >>,
     << "sql-server", "SQL Server" >>,
     << "mysql", "MySQL" >>,
     << "postgresql", "PostgreSQL" >>,
     << "mongodb", "MongoDB" >>,
     << "bash", "Bash" >>,
     << "shell", "Shell" >>,
     << "linux", "Linux" >>,
     << "windows", "Windows" >>,
     << "docker", "Docker" >>,
     << "aws", "AWS" >>,
     << "html", "HTML" >>,
     << "css", "CSS" >>,
     << "react", "React" >>,
     << "node", "Node.js" >>,
     << "npm", "npm" >>>>

\* technologyMappings is an object literal: a property that the table does
\* not define is looked up in Object.prototype ('constructor' is the
\* function Object, written here as the text it converts to)
ObjectConstructor == "function Object() { [native code] }"
InheritedMappings == << <<"constructor", ObjectConstructor>> >>

\* the outcome of a call that raised TypeError instead of returning
TypeError == "TypeError"

\* the label of the first tag, in tag order, for which the table has a
\* truthy property; TypeError when a tag met before that is not a string
RECURSIVE getTechnologyFromTags(_)
getTechnologyFromTags(tags) ==
    IF tags = <<>> THEN "Programming"
    ELSE LET own == technologyMappings \o InheritedMappings
             hits == {i \in 1..Len(own) : own[i][1] = TagToLowerCase(tags[1])}
         IN  IF tags[1] = NumberTag THEN TypeError
             ELSE IF hits # {} THEN own[CHOOSE i \in hits : TRUE][2]
             ELSE getTechnologyFromTags(Tail(tags))

\* the strings of the model in the order of Array.prototype.sort (UTF-16 code units)
CodeUnitOrder ==
    <<"AWS", "Bash", "CSS", "Docker", "HTML", "Java", "JavaScript", "Linux",
      "MongoDB", "MySQL", "Node.js", "PostgreSQL", "Programming", "Python",
      "React", "SQL", "SQL Server", "Shell", "Windows", "databases",
      "function Object() { [native code] }", "mobile", "npm", "programming-languages", "system-devops",
      "web-backend", "web-frontend">>

Rank(x) == CHOOSE i \in 1..Len(CodeUnitOrder) : CodeUnitOrder[i] = x

\* [...new Set(values)].sort()
RECURSIVE SortSet(_)
SortSet(S) ==
    IF S = {} THEN <<>>
    ELSE LET least == CHOOSE x \in S : \A y \in S : Rank(x) <= Rank(y)
         IN  <<least>> \o SortSet(S \ {least})

Values(seq, field) == {seq[i][field] : i \in 1..Len(seq)}

NoFile == [exists |-> FALSE]

loadArticleIndex(file, now) ==
    IF file = NoFile
    THEN [articles |-> <<>>, lastUpdated |-> toISOString(now)]
    ELSE SetField(file, "articles",
             SelectSeq(file.articles, LAMBDA article :
                 /\ Truthy(article, "id")
                 /\ Truthy(article, "technology")
                 /\ Truthy(article, "publishedAt")))

\* lines 528-543: the catalog entry of one converted article
IndexEntry(article, now) ==
    LET m == article.metadata
    IN  [id |-> m.uniqueId,
         title |-> m.title,
         slug |-> m.slug,
         category |-> m.category,
         subcategory |-> m.subcategory,
         difficulty |-> m.difficulty,
         technology |-> IF Truthy(m, "technology") THEN m.technology
                        ELSE getTechnologyFromTags(m.tags),
         readTime |-> m.readTime,
         publishedAt |-> IF Truthy(m, "publishedAt") THEN m.publishedAt
                         ELSE IF Truthy(m, "generatedAt") THEN m.generatedAt
                         ELSE toISOString(now),
         featured |-> Truthy(m, "featured"),
         description |-> m.description,
         tags |-> m.tags,
         filename |-> m.slug \o <<"-">> \o m.uniqueId \o MdxSuffix,
         lastUpdated |-> IF Truthy(m, "generatedAt") THEN m.generatedAt
                         ELSE toISOString(now)]

\* a slip: the categories of the loaded index are kept and the new ones added
DerivedCategories_patched(index, updatedArticles) ==
    SortSet((IF "categories" \in DOMAIN index
             THEN {index.categories[i] : i \in 1..Len(index.categories)} ELSE {})
            \cup Values(updatedArticles, "category"))

\* lines 546-548: the derived fields
DerivedCategories(index, updatedArticles) ==
    SortSet(Values(updatedArticles, "category"))

DerivedTechnologies(index, updatedArticles) ==
    SortSet({t \in Values(updatedArticles, "technology") : t # ""})

\* line 535: getTechnologyFromTags raises for one of the new articles, and
\* updateArticleIndex with it
updateArticleIndexThrows(newArticles) ==
    \E j \in 1..Len(newArticles) :
        /\ ~Truthy(newArticles[j].metadata, "technology")
        /\ getTechnologyFromTags(newArticles[j].metadata.tags) = TypeError

updateArticleIndex(index, newArticles, now) ==
    LET existingArticles ==
            SelectSeq(index.articles, LAMBDA article :
                ~\E j \in 1..Len(newArticles) :
                    newArticles[j].metadata.slug = article.slug)
        updatedArticles ==
            existingArticles
            \o [j \in 1..Len(newArticles) |-> IndexEntry(newArticles[j], now)]
    IN  [lastUpdated |-> toISOString(now),
         totalArticles |-> Len(updatedArticles),
         categories |-> DerivedCategories(index, updatedArticles),
         technologies |-> DerivedTechnologies(index, updatedArticles),
         articles |-> updatedArticles]

(***************************************************************************)
(* The records of the model.                                               *)
(***************************************************************************)
HexId == <<"0","a","1","b","2","c","3","d">>
BadId == <<"X","Y","Z">>
Title == <<"T","i","t","l","e">>
Desc(n) == [i \in 1..n |-> "d"]
Body == [string |-> <<"h", "i">>]

\* a title of 167 characters, words of seven letters
LongTitle == [i \in 1..167 |-> IF i % 8 = 0 THEN " " ELSE "t"]

BaseMeta ==
    [title |-> Title, slug |-> <<"a">>, uniqueId |-> HexId,
     category |-> "databases", subcategory |-> "sql",
     description |-> Desc(20), tags |-> <<"mysql">>,
     difficulty |-> "beginner", readTime |-> 5,
     generatedAt |-> <<"iso", 1>>]

\* the metadata with category, subcategory and tags replaced
Classified(meta, category, subcategory, tags) ==
    SetField(SetField(SetField(meta, "category", category),
                      "subcategory", subcategory), "tags", tags)

\* a file of staging/json: JSON text that parses to json, or text that does not parse
JsonFile(meta) == [json |-> [metadata |-> meta, content |-> Body]]
BrokenFile == [syntaxError |-> TRUE]

LongTitleFile ==
    JsonFile(SetField(SetField(SetField(BaseMeta, "title", LongTitle),
                               "tags", <<"recipes", "MySQL", "python">>),
                      "slug", <<"c">>))

ValidFiles ==
    { JsonFile(BaseMeta),
      JsonFile(SetField(Classified(BaseMeta, "web-frontend", "css", <<"CSS">>),
                        "technology", "JavaScript")),
      JsonFile(SetField(Classified(BaseMeta, "programming", "general", <<"Python">>),
                        "slug", <<"a", "_", "b">>)),
      JsonFile(SetField(BaseMeta, "slug", <<"_">>)),
      JsonFile(SetField(SetField(DropField(BaseMeta, "generatedAt"),
                                 "sourceStackOverflowId", "42"),
                        "slug", <<"B", "b">>)),
      LongTitleFile,
      JsonFile(SetField(SetField(BaseMeta, "tags", <<"recipes">>),
                        "generatedAt", <<"loose", 2>>)),
      JsonFile(SetField(BaseMeta, "tags", <<"constructor">>)),
      JsonFile(SetField(BaseMeta, "tags", <<NumberTag>>)) }

InvalidFiles ==
    { JsonFile(DropField(BaseMeta, "description")),
      JsonFile(Classified(BaseMeta, "cooking", "general", <<"recipes">>)),
      JsonFile(Classified(BaseMeta, "databases", "css", <<"mysql">>)),
      JsonFile(SetField(BaseMeta, "qualityMetrics",
                        [wordCount |-> 50, codeBlocks |-> 1])),
      [json |-> [content |-> Body]] }

ThrowingFiles ==
    { BrokenFile,
      [json |-> JsNull],
      [json |-> [metadata |-> BaseMeta, content |-> [number |-> 5]]] }

PipelineFiles == ValidFiles \cup InvalidFiles \cup ThrowingFiles

(***************************************************************************)
(* The batch run: the constructor and processJsonFiles.                    *)
(***************************************************************************)
\* JSON.parse of the file text raised
ParseFails(file) == "syntaxError" \in DOMAIN file

\* the articles a run converts from the files, in order (used to build the
\* index files an earlier run leaves behind)
RECURSIVE ConversionsOf(_, _)
ConversionsOf(files, now) ==
    IF files = <<>> THEN <<>>
    ELSE LET v == validateJsonStructure(files[1].json)
             r == convertJsonToMdx(v.jsonData, now)
         IN  <<[mdxFilename |-> r.mdxFilename, metadata |-> r.metadata]>>
             \o ConversionsOf(Tail(files), now)

\* an index written before entries had the fields technology and publishedAt
LegacyIndexFile ==
    [lastUpdated |-> <<"iso", 1>>,
     totalArticles |-> 1,
     categories |-> <<"databases">>,
     articles |-> << [id |-> HexId, title |-> Title, slug |-> <<"z">>,
                      category |-> "databases", subcategory |-> "sql",
                      difficulty |-> "beginner", readTime |-> 5,
                      description |-> Desc(20), tags |-> <<"mysql">>,
                      filename |-> <<"z">> \o <<"-">> \o HexId \o MdxSuffix,
                      lastUpdated |-> <<"iso", 1>>] >>]

\* config/article-index.json before the run: missing, the index an earlier
\* run wrote, or the legacy index
PriorIndexFiles ==
    { NoFile, LegacyIndexFile }
    \cup { updateArticleIndex(loadArticleIndex(NoFile, 1),
                              ConversionsOf(<<f>>, 1), 1) :
               f \in {g \in ValidFiles :
                        ~updateArticleIndexThrows(ConversionsOf(<<g>>, 1))} }

\* lines 625-638
logError(logs, filename, errors, now) ==
    [f \in DOMAIN logs \cup {filename} |->
        IF f = filename
        THEN [filename |-> filename, errors |-> errors,
              timestamp |-> toISOString(now)]
        ELSE logs[f]]

\* fs.writeFileSync(path, data)
WriteFile(dir, name, data) ==
    [f \in DOMAIN dir \cup {name} |-> IF f = name THEN data ELSE dir[f]]

\* no operation is called on its own
CallOff ==
    callIn = JsNull /\ callOut = JsNull /\ callAgain = JsNull /\ callPhase = "off"

Init ==
    /\ categories = CategoriesFile
    /\ CallOff
    /\ indexFile \in PriorIndexFiles
    /\ jsonFiles \in SeqsUpTo(PipelineFiles, MaxBatch)
    /\ articleIndex = NoFile
    /\ stagingIndex = NoFile
    /\ next = 0
    /\ successfulConversions = <<>>
    /\ processedFiles = <<>>
    /\ errorFiles = <<>>
    /\ errorLogs = <<>>
    /\ mdxFiles = <<>>
    /\ pc = "start"
    /\ slugIn = <<>> /\ slugOut = <<>> /\ slugAgain = <<>> /\ slugPhase = "off"
    /\ vIn = JsNull /\ vOut = JsNull /\ vPhase = "off"

\* new JsonToMdxConverter() and processJsonFiles up to the forEach loop
StartRun ==
    /\ pc = "start"
    /\ \E now \in Instants : articleIndex' = loadArticleIndex(indexFile, now)
    /\ next' = 1
    /\ pc' = IF Len(jsonFiles) = 0 THEN "done" ELSE "loop"
    /\ UNCHANGED <<indexFile, stagingIndex, jsonFiles, successfulConversions,
                   processedFiles, errorFiles, errorLogs, mdxFiles>>
    /\ UNCHANGED <<categories, slugVars, validateVars, callVars>>

\* the record is rejected: lines 677-685 and lines 698-703 do the same
Reject(filename, errors, now) ==
    /\ errorLogs' = logError(errorLogs, filename, errors, now)
    /\ errorFiles' = Append(errorFiles, filename)
    /\ UNCHANGED <<successfulConversions, processedFiles, mdxFiles>>

\* a slip: an accepted record is put on the error list as well
Accept_alsoRejected(filename, result) ==
    /\ mdxFiles' = WriteFile(mdxFiles, result.mdxFilename, result.mdxContent)
    /\ successfulConversions' =
           Append(successfulConversions,
                  [mdxFilename |-> result.mdxFilename, metadata |-> result.metadata])
    /\ processedFiles' = Append(processedFiles, filename)
    /\ errorFiles' = Append(errorFiles, filename)
    /\ UNCHANGED errorLogs

\* the record is accepted: lines 689-696
Accept(filename, result) ==
    /\ mdxFiles' = WriteFile(mdxFiles, result.mdxFilename, result.mdxContent)
    /\ successfulConversions' =
           Append(successfulConversions,
                  [mdxFilename |-> result.mdxFilename, metadata |-> result.metadata])
    /\ processedFiles' = Append(processedFiles, filename)
    /\ UNCHANGED <<errorLogs, errorFiles>>

\* a slip: no try/catch around the body of the callback, so that an
\* exception leaves forEach and ends processJsonFiles
ProcessFile_noTryCatch ==
    /\ pc = "loop"
    /\ next <= Len(jsonFiles)
    /\ \E now \in Instants :
         LET filename == next
             file == jsonFiles[next]
             v == validateJsonStructure(file.json)
             result == convertJsonToMdx(v.jsonData, now)
         IN  IF ParseFails(file) \/ v.threw \/ (Len(v.errors) = 0 /\ result.threw)
             THEN /\ pc' = "done"
                  /\ next' = next
                  /\ UNCHANGED <<errorLogs, errorFiles, successfulConversions,
                                 processedFiles, mdxFiles>>
             ELSE /\ pc' = pc
                  /\ next' = next + 1
                  /\ IF Len(v.errors) > 0 THEN Reject(filename, v.errors, now)
                     ELSE Accept(filename, result)
    /\ UNCHANGED <<indexFile, articleIndex, stagingIndex, jsonFiles>>
    /\ UNCHANGED <<categories, slugVars, validateVars, callVars>>

\* a slip: the return after a failed validation is missing, so that the
\* rejected record goes on to be converted
ProcessFile_noReturn ==
    /\ pc = "loop"
    /\ next <= Len(jsonFiles)
    /\ \E now \in Instants :
         LET filename == next
             file == jsonFiles[next]
         IN  IF ParseFails(file)
             THEN Reject(filename, << <<"Unexpected token in JSON">> >>, now)
             ELSE LET v == validateJsonStructure(file.json)
                      result == convertJsonToMdx(v.jsonData, now)
                  IN  IF v.threw THEN Reject(filename, <<v.message>>, now)
                      ELSE IF Len(v.errors) > 0 /\ ~result.threw
                      THEN /\ errorLogs' = logError(errorLogs, filename, v.errors, now)
                           /\ errorFiles' = Append(errorFiles, filename)
                           /\ mdxFiles' = WriteFile(mdxFiles, result.mdxFilename,
                                                    result.mdxContent)
                           /\ successfulConversions' =
                                  Append(successfulConversions,
                                         [mdxFilename |-> result.mdxFilename,
                                          metadata |-> result.metadata])
                           /\ processedFiles' = Append(processedFiles, filename)
                      ELSE IF result.threw
                      THEN Reject(filename, <<result.message>>, now)
                      ELSE Accept(filename, result)
    /\ next' = next + 1
    /\ UNCHANGED <<indexFile, articleIndex, stagingIndex, jsonFiles, pc>>
    /\ UNCHANGED <<categories, slugVars, validateVars, callVars>>

\* one call of the forEach callback, lines 665-704
ProcessFile ==
    /\ pc = "loop"
    /\ next <= Len(jsonFiles)
    /\ \E now \in Instants :
         LET filename == next
             file == jsonFiles[next]
         IN  IF ParseFails(file)
             THEN Reject(filename, << <<"Unexpected token in JSON">> >>, now)
             ELSE LET v == validateJsonStructure(file.json)
                  IN  IF v.threw THEN Reject(filename, <<v.message>>, now)
                      ELSE IF Len(v.errors) > 0 THEN Reject(filename, v.errors, now)
                      ELSE LET result == convertJsonToMdx(v.jsonData, now)
                           IN  IF result.threw
                               THEN Reject(filename, <<result.message>>, now)
                               ELSE Accept(filename, result)
    /\ next' = next + 1
    /\ UNCHANGED <<indexFile, articleIndex, stagingIndex, jsonFiles, pc>>
    /\ UNCHANGED <<categories, slugVars, validateVars, callVars>>

\* a slip: the merge does not wait for the end of the loop
FinishRun_eager ==
    /\ pc = "loop"
    /\ Len(successfulConversions) > 0
    /\ ~updateArticleIndexThrows(successfulConversions)
    /\ \E now \in Instants :
          stagingIndex' = updateArticleIndex(articleIndex, successfulConversions, now)
    /\ pc' = IF next > Len(jsonFiles) THEN "done" ELSE "loop"
    /\ UNCHANGED <<indexFile, articleIndex, jsonFiles, next, successfulConversions,
                   processedFiles, errorFiles, errorLogs, mdxFiles>>
    /\ UNCHANGED <<categories, slugVars, validateVars, callVars>>

\* the end of processJsonFiles, lines 706-711
FinishRun ==
    /\ pc = "loop"
    /\ next > Len(jsonFiles)
    /\ IF Len(successfulConversions) > 0 /\ updateArticleIndexThrows(successfulConversions)
       THEN pc' = "failed" /\ UNCHANGED stagingIndex
       ELSE /\ pc' = "done"
            /\ IF Len(successfulConversions) > 0
               THEN \E now \in Instants :
                      stagingIndex' = updateArticleIndex(articleIndex,
                                                         successfulConversions, now)
               ELSE UNCHANGED stagingIndex
    /\ UNCHANGED <<indexFile, articleIndex, jsonFiles, next, successfulConversions,
                   processedFiles, errorFiles, errorLogs, mdxFiles>>
    /\ UNCHANGED <<categories, slugVars, validateVars, callVars>>

Next == StartRun \/ ProcessFile \/ FinishRun

Spec == Init /\ [][Next]_vars

(***************************************************************************)
(* Slug normalization on its own: every slug over SlugAlphabet of length   *)
(* at most MaxSlugLen, and the slug of the scenario, normalized once and   *)
(* then once more.                                                         *)
(***************************************************************************)
SlugAlphabet == {"a", "y", "7", "M", "_", "-", " ", "!"}
ScenarioSlug ==
    <<"M","y","_","A","r","t","i","c","l","e"," ","T","i","t","l","e","!">>

PipelineOff ==
    /\ indexFile = NoFile /\ articleIndex = NoFile /\ stagingIndex = NoFile
    /\ jsonFiles = <<>> /\ next = 0 /\ successfulConversions = <<>>
    /\ processedFiles = <<>> /\ errorFiles = <<>> /\ errorLogs = <<>>
    /\ mdxFiles = <<>> /\ pc = "off"

InitSlug ==
    /\ categories = CategoriesFile
    /\ CallOff
    /\ PipelineOff
    /\ slugIn \in SeqsUpTo(SlugAlphabet, MaxSlugLen) \cup {ScenarioSlug}
    /\ slugOut = <<>> /\ slugAgain = <<>> /\ slugPhase = "input"
    /\ vIn = JsNull /\ vOut = JsNull /\ vPhase = "off"

NormalizeSlug ==
    /\ slugPhase = "input"
    /\ slugOut' = normalizeSlug(slugIn)
    /\ slugPhase' = "once"
    /\ UNCHANGED <<slugIn, slugAgain, categories, pipelineVars, validateVars, callVars>>

NormalizeSlugAgain ==
    /\ slugPhase = "once"
    /\ slugAgain' = normalizeSlug(slugOut)
    /\ slugPhase' = "twice"
    /\ UNCHANGED <<slugIn, slugOut, categories, pipelineVars, validateVars, callVars>>

NextSlug == NormalizeSlug \/ NormalizeSlugAgain

SpecSlug == InitSlug /\ [][NextSlug]_vars

(***************************************************************************)
(* Validation on its own: validateJsonStructure applied to every record of *)
(* ValidateInputs.                                                         *)
(***************************************************************************)
Classifications ==
    { <<"databases", "sql", <<"mysql">> >>,
      <<"programming", "general", <<"Python">> >>,
      <<"programming", "general", <<"docker", "aws">> >>,
      <<"frontend", "general", <<>> >>,
      <<"cooking", "general", <<"recipes">> >>,
      <<"databases", "css", <<"mysql">> >>,
      <<"mobile", "general", <<"android">> >>,
      <<"programming", "general", <<"python">> >>,
      <<"programming", "python", <<"mysql">> >>,
      <<"databases", "sql", <<"docker">> >>,
      <<"frontend", "general", <<"mysql">> >> }

ValidateMetas ==
    LET core ==
            { [title |-> Title, slug |-> <<"a">>, uniqueId |-> id,
               category |-> c[1], subcategory |-> c[2], tags |-> c[3],
               description |-> Desc(n), difficulty |-> d, readTime |-> rt] :
                 id \in {HexId, BadId, <<>>}, c \in Classifications,
                 n \in {19, 20, 200, 201}, d \in {"beginner", "expert"},
                 rt \in {5, 0} }
        keyed == core \cup {SetField(m, "sourceStackOverflowId", "42") : m \in core}
    IN  keyed \cup { SetField(m, "qualityMetrics", [wordCount |-> w, codeBlocks |-> 1]) :
                       m \in keyed, w \in {0, 50, 100} }

ValidateInputs ==
    LET metas == ValidateMetas
                 \cup {DropField(m, requiredFields[k]) :
                         m \in ValidateMetas, k \in 1..Len(requiredFields)}
    IN  {[metadata |-> m, content |-> Body] : m \in metas}
        \cup {[metadata |-> m, content |-> [string |-> <<>>]] : m \in ValidateMetas}
        \cup {[metadata |-> m] : m \in ValidateMetas}

InitValidate ==
    /\ categories \in Taxonomies
    /\ CallOff
    /\ PipelineOff
    /\ slugIn = <<>> /\ slugOut = <<>> /\ slugAgain = <<>> /\ slugPhase = "off"
    /\ vIn \in ValidateInputs
    /\ vOut = JsNull
    /\ vPhase = "input"

Validate ==
    /\ vPhase = "input"
    /\ vOut' = validateJsonStructure(vIn)
    /\ vPhase' = "done"
    /\ UNCHANGED <<vIn, categories, pipelineVars, slugVars, callVars>>

NextValidate == Validate

SpecValidate == InitValidate /\ [][NextValidate]_vars

(***************************************************************************)
(* Body rewriting on its own: processCodeBlocks applied to a body, and     *)
(* processImagePlaceholders applied to a body and then to its own result.  *)
(***************************************************************************)
LanguageTags ==
    { <<"c","o","n","f">>,
      <<"c","o","n","s","o","l","e">>,
      <<"t","x","t">>,
      <<"j","s">>,
      <<"J","S">>,
      <<"P","y">>,
      <<"r","u","s","t">>,
      <<"R","u","s","t">>,
      <<"c","+","+">>,
      <<"O","b","j","e","c","t","i","v","e","-","C">>,
      <<"c","o","n","s","t","r","u","c","t","o","r">>,
      <<"_","_","p","r","o","t","o","_","_">> }

\* a body that is one fenced code region with this language tag
CodeBody(tag) ==
    Fence \o tag \o <<Newline, "x", Newline>> \o Fence

BodyPieces ==
    { <<"!","[","x","]","(","y",")">>,
      <<"!","[","x","]","(","P","L","A","C","E","H","O","L","D","E","R",
         ":"," ","x"," ","-"," ","y",")">>,
      <<"!","[","z","]","(">>,
      <<")">>,
      <<"!","[">>,
      <<"]">>,
      <<" ","t">> }

\* the bodies made of at most n pieces
RECURSIVE BodiesOf(_)
BodiesOf(n) ==
    IF n = 0 THEN { <<>> }
    ELSE LET shorter == BodiesOf(n - 1)
         IN  shorter \cup {b \o piece : b \in shorter, piece \in BodyPieces}

\* a body that is one fenced region without a language tag, holding a diagram
DiagramBody(keyword) ==
    Fence \o <<Newline>> \o keyword \o <<Newline>> \o Fence

\* a body that is a fenced code region followed by a line of text
CodeThenText(tag, text) == CodeBody(tag) \o <<Newline>> \o text

Bodies ==
    {CodeBody(tag) : tag \in LanguageTags}
    \cup {DiagramBody(DiagramKeywords[k]) : k \in 1..Len(DiagramKeywords)}
    \cup {CodeThenText(<<"j", "s">>, DiagramKeywords[k]) : k \in 1..Len(DiagramKeywords)}
    \cup BodiesOf(MaxPieces)

InitBody ==
    /\ categories = CategoriesFile
    /\ PipelineOff
    /\ slugIn = <<>> /\ slugOut = <<>> /\ slugAgain = <<>> /\ slugPhase = "off"
    /\ vIn = JsNull /\ vOut = JsNull /\ vPhase = "off"
    /\ callIn \in Bodies
    /\ callOut = <<>> /\ callAgain = <<>> /\ callPhase = "body"

ProcessCodeBlocks ==
    /\ callPhase = "body"
    /\ callOut' = processCodeBlocks(callIn)
    /\ callPhase' = "code blocks"
    /\ UNCHANGED <<callIn, callAgain, categories, pipelineVars, slugVars, validateVars>>

ProcessImagePlaceholders ==
    /\ callPhase = "body"
    /\ callOut' = processImagePlaceholders(callIn)
    /\ callPhase' = "images"
    /\ UNCHANGED <<callIn, callAgain, categories, pipelineVars, slugVars, validateVars>>

ProcessImagePlaceholdersAgain ==
    /\ callPhase = "images"
    /\ callAgain' = processImagePlaceholders(callOut)
    /\ callPhase' = "images twice"
    /\ UNCHANGED <<callIn, callOut, categories, pipelineVars, slugVars, validateVars>>

NextBody ==
    ProcessCodeBlocks \/ ProcessImagePlaceholders \/ ProcessImagePlaceholdersAgain

SpecBody == InitBody /\ [][NextBody]_vars

(***************************************************************************)
(* Composition on its own: convertJsonToMdx applied to a record that       *)
(* passed validation, at one instant and then at another.                  *)
(***************************************************************************)
DateTexts == { <<"iso", 1>>, <<"loose", 2>>, <<"garbage">> }

\* the metadata with the property set, or without it when value is Undefined
WithDate(meta, field, value) ==
    IF value = Undefined THEN DropField(meta, field) ELSE SetField(meta, field, value)

ComposeMetas ==
    { WithDate(WithDate(SetField(m, "slug", slug), "generatedAt", g), "publishedAt", p) :
        m \in {BaseMeta, SetField(BaseMeta, "featured", TRUE)},
        slug \in { <<"a">>, <<"a", "_", "b">> },
        g \in DateTexts \cup {Undefined},
        p \in DateTexts \cup {Undefined} }

\* the records as validateJsonStructure leaves them, when it finds no error
ComposeInputs ==
    { validateJsonStructure([metadata |-> m, content |-> Body]).jsonData :
        m \in {n \in ComposeMetas :
                 validateJsonStructure([metadata |-> n, content |-> Body]).errors = <<>>} }

\* the document of a conversion: the file name and the file content
DocumentOf(result) ==
    [mdxFilename |-> result.mdxFilename, mdxContent |-> result.mdxContent]

InitCompose ==
    /\ categories = CategoriesFile
    /\ PipelineOff
    /\ slugIn = <<>> /\ slugOut = <<>> /\ slugAgain = <<>> /\ slugPhase = "off"
    /\ vIn = JsNull /\ vOut = JsNull /\ vPhase = "off"
    /\ callIn \in ComposeInputs
    /\ callOut = JsNull /\ callAgain = JsNull /\ callPhase = "record"

Compose ==
    /\ callPhase = "record"
    /\ \E now \in Instants :
          callOut' = [now |-> now, document |-> DocumentOf(convertJsonToMdx(callIn, now))]
    /\ callPhase' = "composed"
    /\ UNCHANGED <<callIn, callAgain, categories, pipelineVars, slugVars, validateVars>>

ComposeAgain ==
    /\ callPhase = "composed"
    /\ \E now \in Instants :
          callAgain' = [now |-> now, document |-> DocumentOf(convertJsonToMdx(callIn, now))]
    /\ callPhase' = "composed twice"
    /\ UNCHANGED <<callIn, callOut, categories, pipelineVars, slugVars, validateVars>>

NextCompose == Compose \/ ComposeAgain

SpecCompose == InitCompose /\ [][NextCompose]_vars

(***************************************************************************)
(* Taxonomy resolution on its own: mapCategory and mapSubcategory, called  *)
(* as validateJsonStructure calls them, on a triple and then on the same   *)
(* triple with another list of the same tags.                              *)
(***************************************************************************)
ResolveTags == {"mysql", "docker", "aws", "CSS", "android", "python"}
ResolveCategories == {"programming", "cooking", "frontend", "databases",
                      "programming-languages", "system-devops", "web-frontend"}

\* lines 299-300
Resolution(category, subcategory, tags) ==
    LET mappedCategory == mapCategory(category, subcategory, tags)
    IN  [category |-> mappedCategory,
         subcategory |-> mapSubcategory(mappedCategory, subcategory, tags)]

InitResolve ==
    /\ categories = CategoriesFile
    /\ PipelineOff
    /\ slugIn = <<>> /\ slugOut = <<>> /\ slugAgain = <<>> /\ slugPhase = "off"
    /\ vIn = JsNull /\ vOut = JsNull /\ vPhase = "off"
    /\ callIn \in [category : ResolveCategories,
                   subcategory : {"general", "css"},
                   tags : SeqsUpTo(ResolveTags, MaxTags)]
    /\ callOut = JsNull /\ callAgain = JsNull /\ callPhase = "triple"

Resolve ==
    /\ callPhase = "triple"
    /\ callOut' = Resolution(callIn.category, callIn.subcategory, callIn.tags)
    /\ callPhase' = "resolved"
    /\ UNCHANGED <<callIn, callAgain, categories, pipelineVars, slugVars, validateVars>>

ResolveReordered ==
    /\ callPhase = "resolved"
    /\ \E tags \in SeqsUpTo(ResolveTags, MaxTags) :
          /\ {tags[i] : i \in 1..Len(tags)} = {callIn.tags[i] : i \in 1..Len(callIn.tags)}
          /\ callAgain' = [tags |-> tags,
                           resolution |-> Resolution(callIn.category,
                                                     callIn.subcategory, tags)]
    /\ callPhase' = "resolved twice"
    /\ UNCHANGED <<callIn, callOut, categories, pipelineVars, slugVars, validateVars>>

NextResolve == Resolve \/ ResolveReordered

SpecResolve == InitResolve /\ [][NextResolve]_vars

(***************************************************************************)
(* Title truncation on its own: truncateTitle called with a limit.         *)
(***************************************************************************)
TitleLimits == {4, 10}

InitTitle ==
    /\ categories = CategoriesFile
    /\ PipelineOff
    /\ slugIn = <<>> /\ slugOut = <<>> /\ slugAgain = <<>> /\ slugPhase = "off"
    /\ vIn = JsNull /\ vOut = JsNull /\ vPhase = "off"
    /\ callIn \in [title : SeqsUpTo({"a", " "}, MaxTitleLen), maxLength : TitleLimits]
    /\ callOut = <<>> /\ callAgain = <<>> /\ callPhase = "title"

TruncateTitle ==
    /\ callPhase = "title"
    /\ callOut' = truncateTitle(callIn.title, {callIn.maxLength})
    /\ callPhase' = "truncated"
    /\ UNCHANGED <<callIn, callAgain, categories, pipelineVars, slugVars, validateVars>>

NextTitle == TruncateTitle

SpecTitle == InitTitle /\ [][NextTitle]_vars

(***************************************************************************)
(* Properties.                                                             *)
(***************************************************************************)
Range(seq) == {seq[i] : i \in 1..Len(seq)}

\* the files the loop has already handled
Handled == 1..(IF pc \in {"loop", "done", "failed"} THEN next - 1 ELSE 0)

\* the file parses and validateJsonStructure returns for it
Validates(file) == ~ParseFails(file) /\ ~validateJsonStructure(file.json).threw

\* the file parses and validateJsonStructure returns at least one error for it
HasValidationErrors(file) ==
    Validates(file) /\ Len(validateJsonStructure(file.json).errors) > 0

\* the entries of the staging index that the merge of this run added
MergedEntries ==
    IF stagingIndex = NoFile THEN <<>>
    ELSE SubSeq(stagingIndex.articles,
                Len(stagingIndex.articles) - Len(successfulConversions) + 1,
                Len(stagingIndex.articles))

\* C1: after a merge the catalog holds at most one entry per slug, and the
\* entry held for a slug is the one of the most recently merged article with
\* that slug.
C1_MergeUniqueness ==
    stagingIndex # NoFile =>
        LET articles == stagingIndex.articles
            merged == successfulConversions
        IN  /\ \A i, j \in 1..Len(articles) :
                  i # j => articles[i].slug # articles[j].slug
            /\ \A k \in 1..Len(merged) :
                  (\A l \in (k + 1)..Len(merged) :
                       merged[l].metadata.slug # merged[k].metadata.slug)
                  => \E i \in 1..Len(articles) :
                         /\ articles[i].slug = merged[k].metadata.slug
                         /\ articles[i].id = merged[k].metadata.uniqueId
                         /\ articles[i].category = merged[k].metadata.category

\* C2: after a merge, categories is the sorted list of the distinct
\* categories of the entries, technologies the sorted list of their distinct
\* technology labels, and totalArticles the number of entries.
StrictlySorted(seq) ==
    \A i \in 1..(Len(seq) - 1) : Rank(seq[i]) < Rank(seq[i + 1])

C2_AggregateConsistency ==
    stagingIndex # NoFile =>
        LET articles == stagingIndex.articles
        IN  /\ StrictlySorted(stagingIndex.categories)
            /\ Range(stagingIndex.categories)
                   = {articles[i].category : i \in 1..Len(articles)}
            /\ StrictlySorted(stagingIndex.technologies)
            /\ Range(stagingIndex.technologies)
                   = {articles[i].technology : i \in 1..Len(articles)}
            /\ stagingIndex.totalArticles = Len(articles)

\* a merge has replaced an entry, and the category of the replaced entry is
\* carried by no entry any more
C2_Witness ==
    /\ stagingIndex # NoFile
    /\ \E i \in 1..Len(articleIndex.articles) :
          /\ articleIndex.articles[i].category \notin Range(stagingIndex.categories)
          /\ articleIndex.articles[i].technology \notin Range(stagingIndex.technologies)
          /\ \E j \in 1..Len(stagingIndex.articles) :
                stagingIndex.articles[j].slug = articleIndex.articles[i].slug

\* C3: a record whose validation returns errors is not composed, is not
\* among the articles handed to the merge, and is in the error collection
\* with its error list.
C3_InvalidNeverComposed ==
    /\ Len(successfulConversions) = Len(processedFiles)
    /\ \A name \in DOMAIN mdxFiles :
          \E k \in 1..Len(successfulConversions) :
              successfulConversions[k].mdxFilename = name
    /\ \A i \in Handled :
          HasValidationErrors(jsonFiles[i]) =>
              /\ i \notin Range(processedFiles)
              /\ i \in Range(errorFiles)
              /\ i \in DOMAIN errorLogs
              /\ errorLogs[i].filename = i
              /\ errorLogs[i].errors = validateJsonStructure(jsonFiles[i].json).errors

\* a batch has ended in which an invalid record was logged and another
\* record was composed and merged
C3_Witness ==
    /\ pc = "done"
    /\ stagingIndex # NoFile
    /\ \E i \in Handled :
          HasValidationErrors(jsonFiles[i]) /\ Len(errorLogs[i].errors) = 1

\* C4: a failure on one record does not stop the batch: every record of the
\* batch gets a verdict, accepted or rejected.
C4_BatchContinues ==
    /\ \A i \in Handled : i \in Range(processedFiles) \cup Range(errorFiles)
    /\ pc = "done" => Handled = 1..Len(jsonFiles)

\* the first record of a batch raised an exception and the second one was
\* accepted
C4_Witness ==
    /\ pc = "done"
    /\ Len(jsonFiles) >= 2
    /\ ~Validates(jsonFiles[1])
    /\ 1 \in Range(errorFiles)
    /\ 2 \in Range(processedFiles)

\* C5 as stated: validating a record that lacks a required field returns an
\* error that names the field.
NamesMissing(errors, field) ==
    \E i \in 1..Len(errors) :
        errors[i] = <<"Missing required metadata field: ", field>>

C5_MissingFieldReported ==
    (vPhase = "done" /\ "metadata" \in DOMAIN vIn) =>
        \A k \in 1..Len(requiredFields) :
            requiredFields[k] \notin DOMAIN vIn.metadata
            => /\ ~vOut.threw
               /\ Len(vOut.errors) > 0
               /\ NamesMissing(vOut.errors, requiredFields[k])

\* C5 as amended: the same, except for a record that lacks the id and carries
\* a source key, whose id is generated.
C5_MissingFieldReportedUnlessGenerated ==
    (vPhase = "done" /\ "metadata" \in DOMAIN vIn) =>
        \A k \in 1..Len(requiredFields) :
            (/\ requiredFields[k] \notin DOMAIN vIn.metadata
             /\ ~(requiredFields[k] = "uniqueId"
                  /\ Truthy(vIn.metadata, "sourceStackOverflowId")))
            => /\ ~vOut.threw
               /\ Len(vOut.errors) > 0
               /\ NamesMissing(vOut.errors, requiredFields[k])

\* a record without readTime and otherwise complete has been validated
C5_Witness ==
    /\ vPhase = "done"
    /\ "metadata" \in DOMAIN vIn
    /\ DOMAIN vIn.metadata = Range(requiredFields) \ {"readTime"}
    /\ vOut.errors = << <<"Missing required metadata field: ", "readTime">> >>

\* C6 as stated: every required field, a pair of the taxonomy, a description
\* of 20 to 200 characters and a known difficulty make the record valid.
C6_StatedConditions(jsonData) ==
    /\ "metadata" \in DOMAIN jsonData
    /\ \A k \in 1..Len(requiredFields) : Truthy(jsonData.metadata, requiredFields[k])
    /\ SubcategoryExists(jsonData.metadata.category, jsonData.metadata.subcategory)
    /\ Len(jsonData.metadata.description) \in 20..200
    /\ jsonData.metadata.difficulty \in Difficulties

C6_AmendedConditions(jsonData) ==
    /\ "metadata" \in DOMAIN jsonData
    /\ ContentTruthy(jsonData)
    /\ LET meta == jsonData.metadata
           resolved == AutoFixCategories(meta)
       IN  /\ \A k \in 1..Len(requiredFields) :
                 requiredFields[k] # "uniqueId" => Truthy(meta, requiredFields[k])
           /\ \/ Truthy(meta, "sourceStackOverflowId")
              \/ Truthy(meta, "uniqueId") /\ IsHexId(meta.uniqueId)
           /\ SubcategoryExists(resolved.category, resolved.subcategory)
           /\ Len(meta.description) \in 20..200
           /\ meta.difficulty \in Difficulties
           /\ "qualityMetrics" \in DOMAIN meta
              => (meta.qualityMetrics.wordCount = 0
                  \/ meta.qualityMetrics.wordCount >= 100)

InTaxonomy(record) == SubcategoryExists(record.category, record.subcategory)

C7_ComposedInTaxonomy ==
    /\ \A k \in 1..Len(successfulConversions) :
          InTaxonomy(successfulConversions[k].metadata)
    /\ \A name \in DOMAIN mdxFiles : InTaxonomy(mdxFiles[name].frontmatter)
    /\ \A j \in 1..Len(MergedEntries) : InTaxonomy(MergedEntries[j])
    /\ \A i \in Handled :
          (/\ Validates(jsonFiles[i])
           /\ "metadata" \in DOMAIN jsonFiles[i].json
           /\ LET meta == validateJsonStructure(jsonFiles[i].json).jsonData.metadata
              IN  {"category", "subcategory"} \subseteq DOMAIN meta /\ ~InTaxonomy(meta))
          => i \in Range(errorFiles) /\ i \notin Range(processedFiles)

\* a record whose raw category is not in the taxonomy was resolved, composed
\* and merged, and another one was rejected for its subcategory
C7_Witness ==
    /\ pc = "done"
    /\ \E i \in Range(processedFiles) :
          /\ ~CategoryExists(jsonFiles[i].json.metadata.category)
          /\ \E j \in 1..Len(MergedEntries) :
                MergedEntries[j].category = "programming-languages"
    /\ \E i \in Range(errorFiles) :
          /\ Validates(jsonFiles[i])
          /\ "metadata" \in DOMAIN jsonFiles[i].json
          /\ CategoryExists(jsonFiles[i].json.metadata.category)
          /\ ~InTaxonomy(jsonFiles[i].json.metadata)

\* C8: every composed record has a slug that is not empty and is kebab-case.
C8_ComposedSlugKebab ==
    /\ \A k \in 1..Len(successfulConversions) :
          /\ successfulConversions[k].metadata.slug # <<>>
          /\ IsKebab(successfulConversions[k].metadata.slug)
    /\ \A j \in 1..Len(MergedEntries) :
          MergedEntries[j].slug # <<>> /\ IsKebab(MergedEntries[j].slug)

\* C9: slug normalization lowercases its input, turns underscores and every
\* character outside [a-z0-9-] into a hyphen, collapses runs of hyphens and
\* strips the hyphens at the edges; "My_Article Title!" becomes
\* "my-article-title".
C9_ClaimedSlug(slug) ==
    StripEdgeHyphens(CollapseHyphens(ReplaceNonKebab(ReplaceUnderscores(
        toLowerCase(slug)))))

C9_SlugNormalizationLowercases ==
    slugPhase \in {"once", "twice"} =>
        /\ slugOut = C9_ClaimedSlug(slugIn)
        /\ slugIn = ScenarioSlug =>
              slugOut = <<"m","y","-","a","r","t","i","c","l","e","-",
                          "t","i","t","l","e">>

\* C10: normalizing the result of a normalization returns it unchanged.
C10_SlugIdempotent ==
    slugPhase = "twice" => slugAgain = slugOut

\* a slug that the first normalization changed has been normalized twice
C10_Witness ==
    /\ slugPhase = "twice"
    /\ slugOut # slugIn
    /\ Len(slugOut) >= 3
    /\ \E i \in 1..Len(slugOut) : slugOut[i] = "-"

\* the record drawn for validation has this category, subcategory and tags
Raw(category, subcategory, tags) ==
    /\ "metadata" \in DOMAIN vIn
    /\ {"category", "subcategory", "tags"} \subseteq DOMAIN vIn.metadata
    /\ vIn.metadata.category = category
    /\ vIn.metadata.subcategory = subcategory
    /\ vIn.metadata.tags = tags

\* C14: a raw category that is a category of the taxonomy comes out of
\* category resolution unchanged, whatever the tags are.
C14_ExistingCategoryKept ==
    (/\ vPhase = "done"
     /\ "metadata" \in DOMAIN vIn
     /\ Truthy(vIn.metadata, "category")
     /\ CategoryExists(vIn.metadata.category))
    => /\ ~vOut.threw
       /\ vOut.jsonData.metadata.category = vIn.metadata.category

\* C15: category "programming", subcategory "general" and tags ["python"]
\* are resolved to "programming-languages" and "python".
C15_ProgrammingPython ==
    (vPhase = "done" /\ Raw("programming", "general", <<"python">>))
    => /\ ~vOut.threw
       /\ vOut.jsonData.metadata.category = "programming-languages"
       /\ vOut.jsonData.metadata.subcategory = "python"

\* the record of the scenario has been validated, found valid and given its
\* id from the source key
C15_Witness ==
    /\ vPhase = "done"
    /\ Raw("programming", "general", <<"python">>)
    /\ categories = CategoriesFile
    /\ Truthy(vIn.metadata, "sourceStackOverflowId")
    /\ vOut.errors = <<>>
    /\ vOut.jsonData.metadata.subcategory = "python"

\* C16: category "programming", subcategory "general" and tags
\* ["docker", "aws"] are resolved to "system-devops" and "cloud".
C16_DockerAwsCloud ==
    (vPhase = "done" /\ Raw("programming", "general", <<"docker", "aws">>))
    => /\ ~vOut.threw
       /\ vOut.jsonData.metadata.category = "system-devops"
       /\ vOut.jsonData.metadata.subcategory = "cloud"

\* C17: a supplied id that differs from the id generated from the source
\* key is replaced by the generated id, and the error list has no error
\* about the id.
IdErrors ==
    { <<"Missing required metadata field: ", "uniqueId">>,
      <<"uniqueId must be 8-character hex string">> }

C17_SuppliedIdOverridden ==
    (/\ vPhase = "done"
     /\ "metadata" \in DOMAIN vIn
     /\ Truthy(vIn.metadata, "sourceStackOverflowId")
     /\ Truthy(vIn.metadata, "uniqueId")
     /\ vIn.metadata.uniqueId # generateUniqueId(vIn.metadata.sourceStackOverflowId))
    => /\ ~vOut.threw
       /\ vOut.jsonData.metadata.uniqueId =
              generateUniqueId(vIn.metadata.sourceStackOverflowId)
       /\ Range(vOut.errors) \cap IdErrors = {}

\* a record whose supplied id is not even hexadecimal has been validated
\* and found valid under the generated id
C17_Witness ==
    /\ vPhase = "done"
    /\ "metadata" \in DOMAIN vIn
    /\ Truthy(vIn.metadata, "sourceStackOverflowId")
    /\ Truthy(vIn.metadata, "uniqueId")
    /\ vIn.metadata.uniqueId = BadId
    /\ vOut.errors = <<>>
    /\ vOut.jsonData.metadata.uniqueId = generateUniqueId("42")

\* C11: composing the same valid record at two different instants gives the
\* same document: the same file name, header (lastUpdated included) and body.
C11_CompositionDeterministic ==
    (callPhase = "composed twice" /\ callOut.now # callAgain.now)
    => callAgain.document = callOut.document

\* C12: rewriting the image references of a body that was already rewritten
\* changes nothing.
C12_ImageRewritingIdempotent ==
    callPhase = "images twice" => callAgain = callOut

\* the language tag the claim gives for a tag: the entry of the lookup table
\* for the lowercased tag, and the lowercased tag when the table has none
ClaimedLanguage(tag) ==
    LET lower == toLowerCase(tag)
    IN  IF \E i \in 1..Len(languageMappings) : languageMappings[i][1] = lower
        THEN languageMappings[CHOOSE i \in 1..Len(languageMappings) :
                                  languageMappings[i][1] = lower][2]
        ELSE lower

\* C13: the language tag of a fenced code region is replaced by its entry
\* in the lookup table (conf by config, console by output, txt by text, js
\* by javascript), and a tag without an entry comes out lowercased as a
\* whole, whatever the tag is.
C13_LanguageTagCanonical ==
    callPhase = "code blocks" =>
        /\ \A tag \in LanguageTags :
              callIn = CodeBody(tag) => callOut = CodeBody(ClaimedLanguage(tag))
        /\ callIn = CodeBody(<<"c","o","n","f">>)
              => callOut = CodeBody(<<"c","o","n","f","i","g">>)
        /\ callIn = CodeBody(<<"j","s">>)
              => callOut = CodeBody(<<"j","a","v","a","s","c","r","i","p","t">>)

C19_MergeNeverFails ==
    pc # "failed"

\* the label the claim gives for a tag list: the label of the first tag the
\* lookup table holds, and the default label when it holds none
RECURSIVE ClaimedTechnology(_)
ClaimedTechnology(tags) ==
    IF tags = <<>> THEN "Programming"
    ELSE LET hits == {i \in 1..Len(technologyMappings) :
                        technologyMappings[i][1] = TagToLowerCase(tags[1])}
         IN  IF hits # {} THEN technologyMappings[CHOOSE i \in hits : TRUE][2]
             ELSE ClaimedTechnology(Tail(tags))

\* C20: a merged entry keeps the technology label of its record; when the
\* record has none, the label is that of the first tag, in tag order, that
\* the lookup table holds, and the default label when no tag is in the table.
C20_TechnologyLabel ==
    stagingIndex # NoFile =>
        \A k \in 1..Len(successfulConversions) :
            LET metadata == successfulConversions[k].metadata
            IN  MergedEntries[k].technology =
                    IF Truthy(metadata, "technology") THEN metadata.technology
                    ELSE ClaimedTechnology(metadata.tags)

\* the date text is the canonical one, that of Date.prototype.toISOString
IsCanonicalDate(date) == date[1] = "iso"

\* C21: every date the pipeline stores is in the canonical form: lastUpdated
\* in the header of a composed document, publishedAt and lastUpdated in a
\* merged catalog entry, whatever date text the record supplied.
C21_StoredDatesCanonical ==
    /\ \A name \in DOMAIN mdxFiles :
          IsCanonicalDate(mdxFiles[name].frontmatter.lastUpdated)
    /\ \A k \in 1..Len(MergedEntries) :
          /\ IsCanonicalDate(MergedEntries[k].publishedAt)
          /\ IsCanonicalDate(MergedEntries[k].lastUpdated)

\* the record validated, with and without its quality metrics
HasMetrics(jsonData) ==
    "metadata" \in DOMAIN jsonData /\ "qualityMetrics" \in DOMAIN jsonData.metadata

WithoutMetrics(jsonData) ==
    SetField(jsonData, "metadata", DropField(jsonData.metadata, "qualityMetrics"))

WithWordCount(jsonData, w) ==
    SetField(jsonData, "metadata",
        SetField(jsonData.metadata, "qualityMetrics",
            SetField(jsonData.metadata.qualityMetrics, "wordCount", w)))

TooShort == <<"Content appears too short (< 100 words)">>

\* C22: quality signals never block a record: a record that is valid without
\* its quality metrics is valid with them, whatever the word count is.
C22_QualityNeverBlocks ==
    (/\ vPhase = "done"
     /\ HasMetrics(vIn)
     /\ validateJsonStructure(WithoutMetrics(vIn)).errors = <<>>)
    => ~vOut.threw /\ vOut.errors = <<>>

\* C24: a raw category that is not in the taxonomy and has a rename entry
\* is resolved to the target of the rename, whatever tags the record has.
C24_RenameBeforeTags ==
    (/\ vPhase = "done"
     /\ "metadata" \in DOMAIN vIn
     /\ Truthy(vIn.metadata, "category") /\ Truthy(vIn.metadata, "tags")
     /\ ~CategoryExists(vIn.metadata.category)
     /\ vIn.metadata.category \in DOMAIN categoryMappings)
    => /\ ~vOut.threw
       /\ vOut.jsonData.metadata.category = categoryMappings[vIn.metadata.category]

\* C30: the verdict on the word count is monotone: when a record is reported
\* too short, the same record with any smaller word count, 0 included, is
\* reported too short as well.
C30_WordCountMonotone ==
    (/\ vPhase = "done"
     /\ HasMetrics(vIn)
     /\ TooShort \in Range(vOut.errors))
    => \A w \in 0..(vIn.metadata.qualityMetrics.wordCount - 1) :
          TooShort \in Range(validateJsonStructure(WithWordCount(vIn, w)).errors)

\* what the loop over the batch writes
loopVars == <<next, successfulConversions, processedFiles, errorFiles,
              errorLogs, mdxFiles>>

\* C23: the merge is executed at most once in a run, only after every
\* record of the batch has been validated and accepted or rejected, and no
\* record is handled once the merge has started.
C23_MergeOnceAfterBatch ==
    [][ /\ (stagingIndex' # stagingIndex \/ pc' = "failed")
           => /\ stagingIndex = NoFile
              /\ pc = "loop"
              /\ next > Len(jsonFiles)
              /\ Range(processedFiles) \cup Range(errorFiles) = 1..Len(jsonFiles)
              /\ pc' \in {"done", "failed"}
              /\ UNCHANGED loopVars
        /\ (stagingIndex # NoFile \/ pc = "failed")
           => UNCHANGED <<loopVars, stagingIndex, pc>> ]_vars

\* a batch of one rejected and one accepted record has ended with a merge
C23_Witness ==
    /\ pc = "done"
    /\ stagingIndex # NoFile
    /\ Len(jsonFiles) >= 2
    /\ errorFiles = <<1>>
    /\ processedFiles = <<2>>

\* C27: at the end of a run every record of the batch is on exactly one of
\* the accepted list and the rejected list, and the articles handed to the
\* merge are those of the accepted records, in their order.
C27_AcceptedRejectedPartition ==
    pc \in {"done", "failed"} =>
        /\ Range(processedFiles) \cap Range(errorFiles) = {}
        /\ Range(processedFiles) \cup Range(errorFiles) = 1..Len(jsonFiles)
        /\ Len(processedFiles) + Len(errorFiles) = Len(jsonFiles)
        /\ Len(successfulConversions) = Len(processedFiles)
        /\ \A k \in 1..Len(processedFiles) :
              LET file == jsonFiles[processedFiles[k]]
                  record == validateJsonStructure(file.json).jsonData
              IN  /\ Validates(file) /\ ~HasValidationErrors(file)
                  /\ successfulConversions[k].mdxFilename
                         = convertJsonToMdx(record, 1).mdxFilename
                  /\ stagingIndex # NoFile
                        => MergedEntries[k].filename
                              = successfulConversions[k].mdxFilename

\* a run over a full batch has ended with a merge, an accepted record
\* coming before a rejected one
C27_Witness ==
    /\ pc = "done"
    /\ Len(jsonFiles) = MaxBatch
    /\ processedFiles # <<>>
    /\ errorFiles # <<>>
    /\ stagingIndex # NoFile
    /\ Head(processedFiles) < Head(errorFiles)

\* C28: catalog entries persist across runs: every entry of the persisted
\* catalog whose slug does not occur in the batch is in the catalog the run
\* writes, unchanged.
C28_EntriesPersist ==
    (stagingIndex # NoFile /\ indexFile # NoFile) =>
        \A i \in 1..Len(indexFile.articles) :
            (\A k \in 1..Len(successfulConversions) :
                successfulConversions[k].metadata.slug # indexFile.articles[i].slug)
            => \E j \in 1..Len(stagingIndex.articles) :
                  stagingIndex.articles[j] = indexFile.articles[i]

\* C29: diagram retagging leaves a closing fence as it is, also when the
\* line after it starts with a diagram keyword; only the fence that opens a
\* region without a language tag is retagged.
C29_ClosingFenceKept ==
    callPhase = "code blocks" =>
        \A k \in 1..Len(DiagramKeywords) :
            /\ callIn = CodeThenText(<<"j", "s">>, DiagramKeywords[k])
                  => callOut = CodeThenText(<<"j","a","v","a","s","c","r","i","p","t">>,
                                            DiagramKeywords[k])
            /\ callIn = DiagramBody(DiagramKeywords[k])
                  => callOut = Fence \o Mermaid \o <<Newline>> \o DiagramKeywords[k]
                                 \o <<Newline>> \o Fence

\* the target of the earliest rule of a priority list that some tag of the
\* set matches, and the default when no rule matches; a rule is a pair of a
\* set of tags and a target
EarliestRule(rules, tagSet, default) ==
    LET matching == {i \in 1..Len(rules) : rules[i][1] \cap tagSet # {}}
    IN  IF matching = {} THEN default
        ELSE rules[CHOOSE i \in matching : \A j \in matching : i <= j][2]

CategoryRules ==
    << <<DatabaseTags, "databases">>, <<DevopsTags, "system-devops">>,
       <<FrontendTags, "web-frontend">>, <<MobileTags, "mobile">> >>

SubcategoryRules(category) ==
    CASE category = "databases" ->
           << <<{"sql-server"}, "sql">>, <<{"mysql"}, "mysql">>,
              <<{"postgresql"}, "postgresql">>, <<{"mongodb"}, "mongodb">> >>
      [] category = "programming-languages" ->
           << <<{"java"}, "java">>, <<{"python"}, "python">>,
              <<{"javascript", "js", "npm", "node"}, "javascript">>,
              <<{"c#", "csharp"}, "csharp">>, <<{"cpp", "c++"}, "cpp">>,
              <<{"c"}, "c">>, <<{"go", "golang"}, "go">>, <<{"php"}, "php">>,
              <<{"ruby"}, "ruby">>, <<{"rust"}, "rust">> >>
      [] category = "system-devops" ->
           << <<{"linux", "bash", "shell"}, "linux">>,
              <<{"docker", "container"}, "containerization">>,
              <<{"aws", "azure", "gcp", "cloud"}, "cloud">>,
              <<{"git", "github", "gitlab"}, "version-control">> >>
      [] category = "web-frontend" ->
           << <<{"css"}, "css">>, <<{"html"}, "html">> >>
      [] OTHER -> <<>>

DefaultSubcategory(category, subcategory) ==
    CASE category = "databases" -> "sql"
      [] category = "programming-languages" -> "python"
      [] category = "system-devops" -> "shell"
      [] category = "web-frontend" -> "javascript"
      [] OTHER -> subcategory

\* the resolution the claim gives for a category, a subcategory and a set
\* of lowercased tags
ClaimedResolution(category, subcategory, tagSet) ==
    LET resolved ==
            IF category = "programming" \/ ~CategoryExists(category)
            THEN EarliestRule(CategoryRules, tagSet, RenameCategory(category))
            ELSE RenameCategory(category)
    IN  [category |-> resolved,
         subcategory |->
            IF subcategory = "general"
            THEN EarliestRule(SubcategoryRules(resolved), tagSet,
                              DefaultSubcategory(resolved, subcategory))
            ELSE subcategory]

\* C25: resolution is decided by the order of the rules, not by the order
\* of the tags: two tag lists with the same set of tags are resolved alike,
\* to the target of the earliest rule that some tag matches, and to the
\* default subcategory of the category when no rule matches.
C25_RuleOrderDecides ==
    /\ callPhase \in {"resolved", "resolved twice"} =>
          callOut = ClaimedResolution(callIn.category, callIn.subcategory,
                        {TagToLowerCase(callIn.tags[i]) : i \in 1..Len(callIn.tags)})
    /\ callPhase = "resolved twice" => callAgain.resolution = callOut

\* the tags aws and docker have been resolved in both orders, to the
\* subcategory of the earlier rule
C25_Witness ==
    /\ callPhase = "resolved twice"
    /\ callIn.category = "programming"
    /\ callIn.subcategory = "general"
    /\ callIn.tags = <<"aws", "docker">>
    /\ callAgain.tags = <<"docker", "aws">>
    /\ callOut = [category |-> "system-devops", subcategory |-> "containerization"]

\* C26: with a limit L, a title of at most L characters is returned as it
\* is; a longer title is cut before the last space among its first L
\* characters when more than 0.7 L characters come before that space, and
\* after L characters otherwise; the result is a prefix of the title of at
\* most L characters.
C26_TruncationAtLimit ==
    callPhase = "truncated" =>
        LET title == callIn.title
            L == callIn.maxLength
            spaces == {i \in 1..L : i <= Len(title) /\ title[i] = " "}
            before == (CHOOSE i \in spaces : \A j \in spaces : j <= i) - 1
        IN  /\ Len(title) <= L => callOut = title
            /\ (Len(title) > L /\ spaces # {} /\ 10 * before > 7 * L)
                  => callOut = SubSeq(title, 1, before)
            /\ (Len(title) > L /\ (spaces = {} \/ 10 * before <= 7 * L))
                  => callOut = SubSeq(title, 1, L)
            /\ Len(callOut) <= L
            /\ callOut = SubSeq(title, 1, Len(callOut))

\* a title of more than 10 characters has been cut before a space that 8
\* characters precede, and a space lies before that one
C26_Witness ==
    /\ callPhase = "truncated"
    /\ callIn.maxLength = 10
    /\ Len(callIn.title) > 10
    /\ Len(callOut) = 8
    /\ callIn.title[9] = " "
    /\ callIn.title[4] = " "

====
